---- MODULE Spec2Model ----
(***************************************************************************)
(* On-call schedule management of backend/main.py: the users table, the    *)
(* oncall_schedules table and the handlers that read and write them.       *)
(* Handlers are modelled from the point where their dependencies have      *)
(* resolved (the caller is authenticated, and an admin where the route     *)
(* requires it).  Timestamps are integers; one day is DayLen time units.   *)
(* The columns notes, created_by and created_at are never read by any      *)
(* handler condition and are left out of the rows.                         *)
(***************************************************************************)
EXTENDS Integers, FiniteSets, Sequences, TLC

VARIABLES users, schedules, nextId, resp, pc, req, out

vars == <<users, schedules, nextId, resp, pc, req, out>>

(* ------------------------------ bounds --------------------------------- *)
MaxTime == 2
MaxId == 2

DayLen == 2

Time == 0..MaxTime
Usernames == {"admin", "bob"}
UserIds == 1..(Cardinality(Usernames) + 1)
ScheduleIds == 1..(MaxId + 1)
Emails == {"admin@oncall.devops", "bob@oncall.devops"}
Procs == {1, 2}

(* ------------------------------ helpers -------------------------------- *)
Response(op, status, detail) ==
  [op |-> op, status |-> status, detail |-> detail, user_id |-> 0,
   start_date |-> 0, end_date |-> 0, id |-> 0, now |-> 0, ids |-> {}]

AdminUser == [id |-> 1, username |-> "admin", email |-> "admin@oncall.devops"]

UserExistsAlways(u) == TRUE

\* db.query(User).filter(User.id == schedule.user_id).first() is not None
UserExists(u) == \E usr \in users : usr.id = u

OverlapQueryContained(u, s, e) ==
  {x \in schedules : x.user_id = u /\ x.start_date <= s /\ x.end_date >= e}

OverlapQueryWrongBound(u, s, e) ==
  {x \in schedules : x.user_id = u /\ x.start_date < s /\ x.end_date > s}

OverlapQueryAnyUser(u, s, e) ==
  {x \in schedules : x.start_date < e /\ x.end_date > s}

\* the rows matched by the overlap query of create_oncall_schedule
OverlapQuery(u, s, e) ==
  {x \in schedules : x.user_id = u /\ x.start_date < e /\ x.end_date > s}

NewSchedule(u, s, e) ==
  [id |-> nextId, user_id |-> u, start_date |-> s, end_date |-> e]

CurrentQueryStrict(t) ==
  {x \in schedules : x.start_date < t /\ x.end_date >= t}

\* the rows matched by the filter of get_current_oncall
CurrentQuery(t) ==
  {x \in schedules : x.start_date <= t /\ x.end_date >= t}

\* datetime.utcnow().replace(hour=0, minute=0, second=0, microsecond=0)
TodayStart(now) == now - (now % DayLen)

TodayEnd(now) == TodayStart(now) + DayLen

TodayQueryClosed(now) ==
  {x \in schedules : x.start_date < TodayEnd(now) /\ x.end_date >= TodayStart(now)}

\* the rows matched by the filter of get_today_oncall
TodayQuery(now) ==
  {x \in schedules : x.start_date < TodayEnd(now) /\ x.end_date > TodayStart(now)}

AfterDeleteOfUser(x) == {y \in schedules : y.user_id # x.user_id}

\* the table after db.delete(schedule); db.commit()
AfterDelete(x) == schedules \ {x}

(* ------------------------------- state --------------------------------- *)
Idle == [p \in Procs |-> "idle"]
NoReq == [p \in Procs |-> [user_id |-> 0, start_date |-> 0, end_date |-> 0]]
NoOut == [p \in Procs |-> 0]

\* startup(): the tables exist and the default admin user is present
Init ==
  /\ users = {AdminUser}
  /\ schedules = {}
  /\ nextId = 1
  /\ resp = Response("none", 0, "")
  /\ pc = Idle
  /\ req = NoReq
  /\ out = NoOut

(* --------------------- handlers, executed atomically ------------------- *)
\* no response is in flight: the next request can be served
Ready == resp.op = "none"

create_user(name, email) ==
  /\ Ready
  /\ \/ /\ \E usr \in users : usr.username = name
        /\ resp' = Response("create_user", 400, "Username already registered")
        /\ users' = users
     \/ /\ ~\E usr \in users : usr.username = name
        /\ \E usr \in users : usr.email = email
        /\ resp' = Response("create_user", 400, "Email already registered")
        /\ users' = users
     \/ /\ ~\E usr \in users : usr.username = name
        /\ ~\E usr \in users : usr.email = email
        /\ users' = users \cup
             {[id |-> Cardinality(users) + 1, username |-> name, email |-> email]}
        /\ resp' = [Response("create_user", 200, "") EXCEPT
                      !.id = Cardinality(users) + 1]
  /\ UNCHANGED <<schedules, nextId, pc, req, out>>

create_oncall_schedule(u, s, e) ==
  /\ Ready
  /\ \/ /\ ~UserExists(u)
        /\ resp' = [Response("create", 404, "User not found") EXCEPT
                      !.user_id = u, !.start_date = s, !.end_date = e]
        /\ UNCHANGED <<schedules, nextId>>
     \/ /\ UserExists(u)
        /\ OverlapQuery(u, s, e) # {}
        /\ resp' = [Response("create", 400, "Schedule overlaps with existing schedule")
                      EXCEPT !.user_id = u, !.start_date = s, !.end_date = e]
        /\ UNCHANGED <<schedules, nextId>>
     \/ /\ UserExists(u)
        /\ OverlapQuery(u, s, e) = {}
        /\ nextId <= MaxId
        /\ schedules' = schedules \cup {NewSchedule(u, s, e)}
        /\ nextId' = nextId + 1
        /\ resp' = [Response("create", 200, "") EXCEPT
                      !.user_id = u, !.start_date = s, !.end_date = e,
                      !.id = nextId]
  /\ UNCHANGED <<users, pc, req, out>>

get_current_oncall(t) ==
  /\ Ready
  /\ \/ /\ CurrentQuery(t) = {}
        /\ resp' = [Response("current", 404, "No one is currently on-call")
                      EXCEPT !.now = t]
     \/ \E x \in CurrentQuery(t) :
          resp' = [Response("current", 200, "") EXCEPT
                     !.now = t, !.id = x.id, !.user_id = x.user_id,
                     !.start_date = x.start_date, !.end_date = x.end_date]
  /\ UNCHANGED <<users, schedules, nextId, pc, req, out>>

get_today_oncall(t) ==
  /\ Ready
  /\ resp' = [Response("today", 200, "") EXCEPT
                !.now = t, !.ids = {x.id : x \in TodayQuery(t)}]
  /\ UNCHANGED <<users, schedules, nextId, pc, req, out>>

delete_oncall_schedule(id) ==
  /\ Ready
  /\ \/ /\ ~\E x \in schedules : x.id = id
        /\ resp' = [Response("delete", 404, "Schedule not found") EXCEPT !.id = id]
        /\ schedules' = schedules
     \/ \E x \in schedules :
          /\ x.id = id
          /\ schedules' = AfterDelete(x)
          /\ resp' = [Response("delete", 200, "Schedule deleted successfully")
                        EXCEPT !.id = id]
  /\ UNCHANGED <<users, nextId, pc, req, out>>

\* the response of the handler that just ran is returned to the client
Respond ==
  /\ resp.op # "none"
  /\ resp' = Response("none", 0, "")
  /\ UNCHANGED <<users, schedules, nextId, pc, req, out>>

Next ==
  \/ \E name \in Usernames, email \in Emails : create_user(name, email)
  \/ \E u \in UserIds, s \in Time, e \in Time : create_oncall_schedule(u, s, e)
  \/ \E t \in Time : get_current_oncall(t)
  \/ \E t \in Time : get_today_oncall(t)
  \/ \E id \in ScheduleIds : delete_oncall_schedule(id)
  \/ Respond

Spec == Init /\ [][Next]_vars

(* ------------- create_oncall_schedule, one statement at a time --------- *)
(* Requests served by separate workers, each with its own session from     *)
(* get_db; the handler takes no lock and sets no isolation level, so a     *)
(* query sees the rows committed so far and the insert commits on its own. *)
ReceiveCreate(p, u, s, e) ==
  /\ pc[p] = "idle"
  /\ req' = [req EXCEPT ![p] = [user_id |-> u, start_date |-> s, end_date |-> e]]
  /\ pc' = [pc EXCEPT ![p] = "check_user"]
  /\ out' = [out EXCEPT ![p] = 0]
  /\ UNCHANGED <<users, schedules, nextId, resp>>

CheckUser(p) ==
  /\ pc[p] = "check_user"
  /\ \/ /\ ~UserExists(req[p].user_id)
        /\ out' = [out EXCEPT ![p] = 404]
        /\ pc' = [pc EXCEPT ![p] = "done"]
     \/ /\ UserExists(req[p].user_id)
        /\ out' = out
        /\ pc' = [pc EXCEPT ![p] = "check_overlap"]
  /\ UNCHANGED <<users, schedules, nextId, resp, req>>

CheckOverlap(p) ==
  /\ pc[p] = "check_overlap"
  /\ \/ /\ OverlapQuery(req[p].user_id, req[p].start_date, req[p].end_date) # {}
        /\ out' = [out EXCEPT ![p] = 400]
        /\ pc' = [pc EXCEPT ![p] = "done"]
     \/ /\ OverlapQuery(req[p].user_id, req[p].start_date, req[p].end_date) = {}
        /\ out' = out
        /\ pc' = [pc EXCEPT ![p] = "insert"]
  /\ UNCHANGED <<users, schedules, nextId, resp, req>>

InsertCommit(p) ==
  /\ pc[p] = "insert"
  /\ nextId <= MaxId
  /\ schedules' = schedules \cup
       {NewSchedule(req[p].user_id, req[p].start_date, req[p].end_date)}
  /\ nextId' = nextId + 1
  /\ out' = [out EXCEPT ![p] = 200]
  /\ pc' = [pc EXCEPT ![p] = "done"]
  /\ UNCHANGED <<users, resp, req>>

Return(p) ==
  /\ pc[p] = "done"
  /\ pc' = [pc EXCEPT ![p] = "idle"]
  /\ UNCHANGED <<users, schedules, nextId, resp, req, out>>

NextConc ==
  \/ \E p \in Procs, u \in UserIds, s \in Time, e \in Time : ReceiveCreate(p, u, s, e)
  \/ \E p \in Procs : CheckUser(p)
  \/ \E p \in Procs : CheckOverlap(p)
  \/ \E p \in Procs : InsertCommit(p)
  \/ \E p \in Procs : Return(p)

SpecConc == Init /\ [][NextConc]_vars

(* ------------------------------ properties ----------------------------- *)
\* x and y collide under the rule of the overlap check
Collide(x, y) == x.start_date < y.end_date /\ x.end_date > y.start_date

\* the request recorded in response r collides with stored row x of its user
CollidesWithRequest(x, r) ==
  x.user_id = r.user_id /\ x.start_date < r.end_date /\ x.end_date > r.start_date

\* C1: after any sequence of atomic creates and deletes from the empty
\* store, no two distinct stored schedules of one user overlap, whatever
\* start/end values were requested (end <= start included).
C1_NoSameUserOverlap ==
  \A S1 \in schedules : \A S2 \in schedules :
    (S1 # S2 /\ S1.user_id = S2.user_id) => ~Collide(S1, S2)

C1_Witness ==
  /\ \E S1 \in schedules : \E S2 \in schedules :
       S1 # S2 /\ S1.user_id = S2.user_id /\ S1.end_date <= S1.start_date
  /\ nextId > MaxId

\* C2: two concurrent creates for the same existing user with mutually
\* overlapping intervals never both pass the overlap check and insert, and
\* the store never holds two overlapping schedules of one user.
C2_CreateSerialized ==
  /\ \A p \in Procs : \A q \in Procs :
       (/\ p # q
        /\ pc[p] = "done" /\ out[p] = 200
        /\ pc[q] = "done" /\ out[q] = 200
        /\ req[p].user_id = req[q].user_id)
       => ~Collide(req[p], req[q])
  /\ \A S1 \in schedules : \A S2 \in schedules :
       (S1.id # S2.id /\ S1.user_id = S2.user_id) => ~Collide(S1, S2)

\* C3: a create for an existing user whose interval overlaps a stored
\* schedule of that user fails with 400 'Schedule overlaps with existing
\* schedule' and leaves the stored schedules as they were.
C3_OverlapRejected ==
  [][(/\ resp'.op = "create"
      /\ \E usr \in users : usr.id = resp'.user_id
      /\ \E x \in schedules : CollidesWithRequest(x, resp'))
     => (/\ resp'.status = 400
         /\ resp'.detail = "Schedule overlaps with existing schedule"
         /\ schedules' = schedules)]_vars

C3_Witness ==
  /\ resp.op = "create"
  /\ resp.status = 400
  /\ \E x \in schedules : CollidesWithRequest(x, resp)

\* C4: the current-on-call query at time t returns a schedule iff some
\* stored schedule has start <= t <= end, the returned schedule is stored
\* and itself has start <= t <= end, it answers 404 otherwise, and the
\* store is unchanged.
C4_CurrentIffCovering ==
  [][(resp'.op = "current")
     => (/\ schedules' = schedules
         /\ resp'.status \in {200, 404}
         /\ (resp'.status = 200) <=>
              (\E x \in schedules :
                 x.start_date <= resp'.now /\ resp'.now <= x.end_date)
         /\ (resp'.status = 200) =>
              (\E x \in schedules :
                 /\ x.id = resp'.id
                 /\ x.user_id = resp'.user_id
                 /\ x.start_date <= resp'.now /\ resp'.now <= x.end_date))]_vars

C4_Witness ==
  /\ resp.op = "current"
  /\ resp.status = 200
  /\ \E x \in schedules : ~(x.start_date <= resp.now /\ resp.now <= x.end_date)

\* C5: every create whose end_date <= start_date is rejected and leaves the
\* store unchanged, so every stored schedule has end > start.
C5_EndAfterStart ==
  [][/\ (resp'.op = "create" /\ resp'.end_date <= resp'.start_date)
          => (resp'.status # 200 /\ schedules' = schedules)
     /\ \A x \in schedules' : x.end_date > x.start_date]_vars

\* C6: a create whose user_id names no existing user fails with 404 'User
\* not found' and leaves the store unchanged, whatever schedules are stored
\* (the user check comes before the overlap check).
C6_UnknownUserRejected ==
  [][(/\ resp'.op = "create"
      /\ ~\E usr \in users : usr.id = resp'.user_id)
     => (/\ resp'.status = 404
         /\ resp'.detail = "User not found"
         /\ schedules' = schedules
         /\ users' = users)]_vars

C6_Witness ==
  /\ resp.op = "create"
  /\ resp.status = 404
  /\ \E x \in schedules :
       x.start_date < resp.end_date /\ x.end_date > resp.start_date

\* C7: delete(id) answers 404 'Schedule not found' exactly when no stored
\* schedule has that id, and then the store is unchanged; otherwise it
\* succeeds, removes exactly that schedule and leaves every other one.
C7_DeleteExactlyOne ==
  [][(resp'.op = "delete")
     => (/\ resp'.status \in {200, 404}
         /\ (resp'.status = 404) <=> ~(\E x \in schedules : x.id = resp'.id)
         /\ (resp'.status = 404) =>
              (/\ resp'.detail = "Schedule not found"
               /\ schedules' = schedules)
         /\ (resp'.status = 200) =>
              (/\ schedules' = {x \in schedules : x.id # resp'.id}
               /\ Cardinality(schedules') = Cardinality(schedules) - 1))]_vars

C7_Witness ==
  /\ resp.op = "delete"
  /\ resp.status = 200
  /\ schedules # {}
  /\ ~\E x \in schedules : x.id = resp.id

\* C8: a create for an existing user u with no stored schedule of u
\* overlapping the requested interval succeeds and adds exactly one schedule
\* with an id no stored schedule has, however many schedules of other users
\* overlap the interval; the stored schedules are unchanged.
C8_CrossUserAllowed ==
  [][(/\ resp'.op = "create"
      /\ \E usr \in users : usr.id = resp'.user_id
      /\ ~\E x \in schedules : CollidesWithRequest(x, resp'))
     => (/\ resp'.status = 200
         /\ ~\E x \in schedules : x.id = resp'.id
         /\ schedules' = schedules \cup
              {[id |-> resp'.id, user_id |-> resp'.user_id,
                start_date |-> resp'.start_date, end_date |-> resp'.end_date]}
         /\ Cardinality(schedules') = Cardinality(schedules) + 1)]_vars

C8_Witness ==
  /\ resp.op = "create"
  /\ resp.status = 200
  /\ \E x \in schedules :
       /\ x.user_id # resp.user_id
       /\ x.start_date < resp.end_date /\ x.end_date > resp.start_date
  /\ \E x \in schedules : x.id = resp.id

\* midnight of the day that holds t
MidnightOf(t) ==
  CHOOSE m \in 0..t : m % DayLen = 0 /\ m <= t /\ t < m + DayLen

\* C9: the today query at time now returns exactly the stored schedules with
\* start < midnight-tomorrow and end > midnight-today.
C9_TodayExactlyIntersecting ==
  [][(resp'.op = "today")
     => (/\ schedules' = schedules
         /\ resp'.status = 200
         /\ resp'.ids =
              {x.id : x \in {y \in schedules :
                 /\ y.start_date < MidnightOf(resp'.now) + DayLen
                 /\ y.end_date > MidnightOf(resp'.now)}})]_vars

C9_Witness ==
  /\ resp.op = "today"
  /\ resp.ids # {}
  /\ \E x \in schedules : x.id \notin resp.ids
  /\ resp.now % DayLen # 0

\* C10: for every user u and time t at most one stored schedule of u has
\* start <= t <= end.
C10_AtMostOneCurrentPerUser ==
  \A u \in UserIds : \A t \in Time :
    Cardinality({x \in schedules :
                   x.user_id = u /\ x.start_date <= t /\ t <= x.end_date}) <= 1

====
